---------------------------- MODULE Spec2Model ----------------------------
(***************************************************************************)
(* A model of the AWN data collector: the unit converter, the collection   *)
(* loop (fetch, convert, store, aggregate, purge, publish), the store's    *)
(* three tables and the Broadcaster with its SSE consumers.                *)
(*                                                                         *)
(* Numbers are fixed-point integers in hundredths (22.22 is 2222): every   *)
(* converter rounds to two decimals, and so does the aggregate mean.       *)
(* Time is counted in days since 1 January 2023 (UTC).                     *)
(***************************************************************************)
EXTENDS Integers, Sequences, FiniteSets, TLC

(***************************************************************************)
(* Bounds of the model.                                                    *)
(***************************************************************************)
\* ticks the collection loop starts
MaxTicks == 2
\* times the clock moves forward
MaxClockSteps == 2
\* SSE connections opened (each owns one queue)
MaxConsumers == 2
\* publish calls made on the Broadcaster alone
MaxPublish == 2
MaxRawLen == 3

(***************************************************************************)
(* Program constants.                                                      *)
(***************************************************************************)
\* asyncio.Queue(maxsize=100)
QueueMaxSize == 100
\* asyncio.sleep(5) after a 429
BackoffSeconds == 5
\* collection_interval_seconds: int = 60
IntervalSeconds == 60
\* daily_retention_days: int = 7
RetentionDays == 7

(***************************************************************************)
(* JSON values: a number (in hundredths) or a string.                      *)
(***************************************************************************)
Num(n) == [num |-> TRUE, n |-> n, s |-> ""]
Str(s) == [num |-> FALSE, n |-> 0, s |-> s]

\* Python's round(x, 2) of the exact quotient a / b (b > 0), in hundredths:
\* to the nearest, a tie to the even neighbour.
RoundDiv(a, b) ==
    LET q == a \div b
        r == a % b
    IN  IF 2 * r < b THEN q
        ELSE IF 2 * r > b THEN q + 1
        ELSE IF q % 2 = 0 THEN q ELSE q + 1

fahrenheit_to_celsius(f) == RoundDiv((f - 3200) * 5, 9)
mph_to_kmh(mph) == RoundDiv(mph * 160934, 100000)
inhg_to_hpa(inhg) == RoundDiv(inhg * 338639, 10000)
inches_to_mm(inches) == RoundDiv(inches * 254, 10)

\* original_field -> (metric_field_name, conversion function or "None")
FIELD_CONVERSIONS ==
    << <<"tempf", "temp_c", "f2c">>, <<"tempinf", "temp_in_c", "f2c">>,
       <<"temp1f", "temp1_c", "f2c">>, <<"temp2f", "temp2_c", "f2c">>,
       <<"temp3f", "temp3_c", "f2c">>, <<"temp4f", "temp4_c", "f2c">>,
       <<"temp5f", "temp5_c", "f2c">>, <<"temp6f", "temp6_c", "f2c">>,
       <<"temp7f", "temp7_c", "f2c">>, <<"temp8f", "temp8_c", "f2c">>,
       <<"temp9f", "temp9_c", "f2c">>, <<"temp10f", "temp10_c", "f2c">>,
       <<"feelsLike", "feels_like_c", "f2c">>,
       <<"feelsLikein", "feels_like_in_c", "f2c">>,
       <<"feelsLike1", "feels_like1_c", "f2c">>,
       <<"feelsLike2", "feels_like2_c", "f2c">>,
       <<"feelsLike3", "feels_like3_c", "f2c">>,
       <<"feelsLike4", "feels_like4_c", "f2c">>,
       <<"feelsLike5", "feels_like5_c", "f2c">>,
       <<"feelsLike6", "feels_like6_c", "f2c">>,
       <<"feelsLike7", "feels_like7_c", "f2c">>,
       <<"feelsLike8", "feels_like8_c", "f2c">>,
       <<"feelsLike9", "feels_like9_c", "f2c">>,
       <<"feelsLike10", "feels_like10_c", "f2c">>,
       <<"dewPoint", "dew_point_c", "f2c">>,
       <<"dewPointin", "dew_point_in_c", "f2c">>,
       <<"dewPoint1", "dew_point1_c", "f2c">>,
       <<"dewPoint2", "dew_point2_c", "f2c">>,
       <<"dewPoint3", "dew_point3_c", "f2c">>,
       <<"dewPoint4", "dew_point4_c", "f2c">>,
       <<"dewPoint5", "dew_point5_c", "f2c">>,
       <<"dewPoint6", "dew_point6_c", "f2c">>,
       <<"dewPoint7", "dew_point7_c", "f2c">>,
       <<"dewPoint8", "dew_point8_c", "f2c">>,
       <<"dewPoint9", "dew_point9_c", "f2c">>,
       <<"dewPoint10", "dew_point10_c", "f2c">>,
       <<"windspeedmph", "wind_speed_kmh", "mph">>,
       <<"windgustmph", "wind_gust_kmh", "mph">>,
       <<"maxdailygust", "max_daily_gust_kmh", "mph">>,
       <<"windspdmph_avg2m", "wind_speed_avg_2m_kmh", "mph">>,
       <<"windspdmph_avg10m", "wind_speed_avg_10m_kmh", "mph">>,
       <<"baromrelin", "barom_rel_hpa", "inhg">>,
       <<"baromabsin", "barom_abs_hpa", "inhg">>,
       <<"hourlyrainin", "hourly_rain_mm", "in">>,
       <<"dailyrainin", "daily_rain_mm", "in">>,
       <<"weeklyrainin", "weekly_rain_mm", "in">>,
       <<"monthlyrainin", "monthly_rain_mm", "in">>,
       <<"yearlyrainin", "yearly_rain_mm", "in">>,
       <<"eventrainin", "event_rain_mm", "in">>,
       <<"totalrainin", "total_rain_mm", "in">>,
       <<"24hourrainin", "rain_24h_mm", "in">>,
       <<"humidity", "humidity", "None">>,
       <<"humidityin", "humidity_in", "None">>,
       <<"humidity1", "humidity1", "None">>,
       <<"humidity2", "humidity2", "None">>,
       <<"humidity3", "humidity3", "None">>,
       <<"humidity4", "humidity4", "None">>,
       <<"humidity5", "humidity5", "None">>,
       <<"humidity6", "humidity6", "None">>,
       <<"humidity7", "humidity7", "None">>,
       <<"humidity8", "humidity8", "None">>,
       <<"humidity9", "humidity9", "None">>,
       <<"humidity10", "humidity10", "None">>,
       <<"winddir", "wind_dir", "None">>,
       <<"windgustdir", "wind_gust_dir", "None">>,
       <<"winddir_avg2m", "wind_dir_avg_2m", "None">>,
       <<"winddir_avg10m", "wind_dir_avg_10m", "None">>,
       <<"uv", "uv", "None">>,
       <<"solarradiation", "solar_radiation", "None">>,
       <<"date", "date", "None">>,
       <<"dateutc", "date_utc", "None">>,
       <<"tz", "tz", "None">>
    >>

EXCLUDED_FIELDS == {"macAddress", "device", "loc", "lastRain"}

NON_NUMERIC_FIELDS == {"date", "date_utc", "tz"}

\* key in FIELD_CONVERSIONS
InConversions(key) ==
    \E i \in 1..Len(FIELD_CONVERSIONS) : FIELD_CONVERSIONS[i][1] = key

\* FIELD_CONVERSIONS[key]
Conversion(key) ==
    FIELD_CONVERSIONS[CHOOSE i \in 1..Len(FIELD_CONVERSIONS) :
                          FIELD_CONVERSIONS[i][1] = key]

\* converter_fn(value)
ApplyConverter(fn, value) ==
    CASE fn = "f2c" -> Num(fahrenheit_to_celsius(value.n))
      [] fn = "mph" -> Num(mph_to_kmh(value.n))
      [] fn = "inhg" -> Num(inhg_to_hpa(value.n))
      [] OTHER -> Num(inches_to_mm(value.n))

\* converted[key] = value
DictSet(d, key, value) ==
    [k \in (DOMAIN d) \cup {key} |-> IF k = key THEN value ELSE d[k]]

\* the empty dict {}
EmptyDict == [k \in {} |-> Num(0)]

\* a loop body without the test for the metadata keys
ConvertItemKeepAll(converted, key, value) ==
    IF InConversions(key)
    THEN LET metric_key == Conversion(key)[2]
             converter_fn == Conversion(key)[3]
         IN  IF converter_fn # "None" /\ value.num
             THEN DictSet(converted, metric_key,
                          ApplyConverter(converter_fn, value))
             ELSE DictSet(converted, metric_key, value)
    ELSE DictSet(converted, key, value)

\* One pass of convert_reading's loop body over the item <<key, value>>.
ConvertItem(converted, key, value) ==
    IF key \in EXCLUDED_FIELDS THEN converted
    ELSE IF InConversions(key)
         THEN LET metric_key == Conversion(key)[2]
                  converter_fn == Conversion(key)[3]
              IN  IF converter_fn # "None" /\ value.num
                  THEN DictSet(converted, metric_key,
                               ApplyConverter(converter_fn, value))
                  ELSE DictSet(converted, metric_key, value)
         ELSE DictSet(converted, key, value)

RECURSIVE ConvertFrom(_, _, _)
ConvertFrom(raw_data, i, converted) ==
    IF i > Len(raw_data) THEN converted
    ELSE ConvertFrom(raw_data, i + 1,
                     ConvertItem(converted, raw_data[i][1], raw_data[i][2]))

\* convert_reading: raw_data is the raw dict as its items in insertion order.
convert_reading(raw_data) == ConvertFrom(raw_data, 1, EmptyDict)

\* get_numeric_fields: the keys of the numeric fields fit for aggregation
NumericKeys(data) ==
    {k \in DOMAIN data : data[k].num /\ k \notin NON_NUMERIC_FIELDS}

get_numeric_fields(data) == [k \in NumericKeys(data) |-> data[k].n]


(***************************************************************************)
(* The calendar: a timestamp is a day number, day 0 being 1 January 2023.  *)
(***************************************************************************)
IsLeap(y) == (y % 4 = 0 /\ y % 100 # 0) \/ y % 400 = 0

DaysInYear(y) == IF IsLeap(y) THEN 366 ELSE 365

DaysInMonth(y, m) ==
    IF m = 2 THEN (IF IsLeap(y) THEN 29 ELSE 28)
    ELSE IF m \in {4, 6, 9, 11} THEN 30 ELSE 31

RECURSIVE YearFrom(_, _)
YearFrom(d, y) ==
    IF d < DaysInYear(y) THEN y ELSE YearFrom(d - DaysInYear(y), y + 1)

RECURSIVE DayOfYearFrom(_, _)
DayOfYearFrom(d, y) ==
    IF d < DaysInYear(y) THEN d ELSE DayOfYearFrom(d - DaysInYear(y), y + 1)

RECURSIVE MonthFrom(_, _, _)
MonthFrom(d, y, m) ==
    IF d < DaysInMonth(y, m) THEN m ELSE MonthFrom(d - DaysInMonth(y, m), y, m + 1)

\* ts.year
YearOf(t) == YearFrom(t, 2023)

\* ts.month
MonthOf(t) == MonthFrom(DayOfYearFrom(t, 2023), YearOf(t), 1)

\* the decimal digits of n >= 0, most significant first
RECURSIVE Digits(_)
Digits(n) == IF n < 10 THEN <<n>> ELSE Append(Digits(n \div 10), n % 10)

\* zero-padding to a width, as %Y, %m and the format 02d do
RECURSIVE ZeroPad(_, _)
ZeroPad(ds, width) == IF Len(ds) >= width THEN ds ELSE ZeroPad(<<0>> \o ds, width)

\* str(year)
StrYear(year) == Digits(year)

\* f"{month:02d}"
StrMonth(month) == ZeroPad(Digits(month), 2)

\* func.strftime("%Y", DailyReading.timestamp)
StrftimeY(t) == ZeroPad(Digits(YearOf(t)), 4)

\* func.strftime("%m", DailyReading.timestamp)
StrftimeM(t) == ZeroPad(Digits(MonthOf(t)), 2)

(***************************************************************************)
(* The store.  A table is the sequence of its rows in insertion order:     *)
(* daily_readings rows are [timestamp, mac_address, data], aggregate rows  *)
(* carry their key and the four statistics.                                *)
(***************************************************************************)
RECURSIVE SumSeq(_)
SumSeq(values) == IF values = <<>> THEN 0 ELSE Head(values) + SumSeq(Tail(values))

Range(seq) == {seq[i] : i \in 1..Len(seq)}

\* min(values)
MinSeq(values) == CHOOSE v \in Range(values) : \A w \in Range(values) : v <= w

\* max(values)
MaxSeq(values) == CHOOSE v \in Range(values) : \A w \in Range(values) : v >= w

\* round(sum(values) / len(values), 2)
AvgSeq(values) == RoundDiv(SumSeq(values), Len(values))

\* the keys of a set as a sequence (the order in which a dict is walked)
RECURSIVE KeySeq(_)
KeySeq(keys) ==
    IF keys = {} THEN <<>>
    ELSE LET k == CHOOSE x \in keys : TRUE IN <<k>> \o KeySeq(keys \ {k})

\* metrics: the metric names of the loaded rows
MetricNames(rows) == UNION {NumericKeys(rows[i]) : i \in 1..Len(rows)}

\* metrics[key]: the values of one metric over the loaded rows, in row order
MetricValues(rows, key) ==
    LET having == SelectSeq(rows, LAMBDA data : key \in NumericKeys(data))
    IN  [i \in 1..Len(having) |-> get_numeric_fields(having[i])[key]]

\* a recompute that looks at the newest reading of the month only
SelectMonthNewest(readings, mac_address, year, month) ==
    LET hit == SelectSeq(readings, LAMBDA r :
                   /\ r.mac_address = mac_address
                   /\ StrftimeY(r.timestamp) = StrYear(year)
                   /\ StrftimeM(r.timestamp) = StrMonth(month))
    IN  IF hit = <<>> THEN <<>> ELSE <<hit[Len(hit)].data>>

\* a select of the month's readings that leaves the device out of its where
SelectMonthAnyDevice(readings, mac_address, year, month) ==
    LET hit == SelectSeq(readings, LAMBDA r :
                   /\ StrftimeY(r.timestamp) = StrYear(year)
                   /\ StrftimeM(r.timestamp) = StrMonth(month))
    IN  [i \in 1..Len(hit) |-> hit[i].data]

\* the select of update_monthly_aggregates: DailyReading.data of a month
SelectMonth(readings, mac_address, year, month) ==
    LET hit == SelectSeq(readings, LAMBDA r :
                   /\ r.mac_address = mac_address
                   /\ StrftimeY(r.timestamp) = StrYear(year)
                   /\ StrftimeM(r.timestamp) = StrMonth(month))
    IN  [i \in 1..Len(hit) |-> hit[i].data]

\* a select of the year's readings that leaves the device out of its where
SelectYearAnyDevice(readings, mac_address, year) ==
    LET hit == SelectSeq(readings, LAMBDA r :
                   StrftimeY(r.timestamp) = StrYear(year))
    IN  [i \in 1..Len(hit) |-> hit[i].data]

\* the select of update_yearly_aggregates: DailyReading.data of a year
SelectYear(readings, mac_address, year) ==
    LET hit == SelectSeq(readings, LAMBDA r :
                   /\ r.mac_address = mac_address
                   /\ StrftimeY(r.timestamp) = StrYear(year))
    IN  [i \in 1..Len(hit) |-> hit[i].data]

\* a pass of the upsert loop that adds the new values' count to the row's
UpsertMonthlyAccumulate(res, mac_address, year, month, metric_name, values) ==
    LET table == res.table
        match == {i \in 1..Len(table) :
                     /\ table[i].mac_address = mac_address
                     /\ table[i].year = year
                     /\ table[i].month = month
                     /\ table[i].metric_name = metric_name}
    IN  IF ~res.ok \/ Cardinality(match) > 1 THEN [ok |-> FALSE, table |-> table]
        ELSE IF match # {}
        THEN [ok |-> TRUE,
              table |-> [table EXCEPT ![CHOOSE i \in match : TRUE] =
                            [@ EXCEPT !.min_value = MinSeq(values),
                                      !.max_value = MaxSeq(values),
                                      !.avg_value = AvgSeq(values),
                                      !.count = @ + Len(values)]]]
        ELSE [ok |-> TRUE,
              table |-> Append(table,
                            [mac_address |-> mac_address, year |-> year,
                             month |-> month, metric_name |-> metric_name,
                             min_value |-> MinSeq(values),
                             max_value |-> MaxSeq(values),
                             avg_value |-> AvgSeq(values),
                             count |-> Len(values)])]

\* a pass of the upsert loop that adds a row without looking for one
UpsertMonthlyInsertOnly(res, mac_address, year, month, metric_name, values) ==
    [ok |-> res.ok,
     table |-> Append(res.table,
                   [mac_address |-> mac_address, year |-> year,
                    month |-> month, metric_name |-> metric_name,
                    min_value |-> MinSeq(values),
                    max_value |-> MaxSeq(values),
                    avg_value |-> AvgSeq(values),
                    count |-> Len(values)])]

\* One pass of the monthly upsert loop: update the row of the key, or add one.
\* scalar_one_or_none raises when several rows match.
UpsertMonthly(res, mac_address, year, month, metric_name, values) ==
    LET table == res.table
        match == {i \in 1..Len(table) :
                     /\ table[i].mac_address = mac_address
                     /\ table[i].year = year
                     /\ table[i].month = month
                     /\ table[i].metric_name = metric_name}
    IN  IF ~res.ok \/ Cardinality(match) > 1 THEN [ok |-> FALSE, table |-> table]
        ELSE IF match # {}
        THEN [ok |-> TRUE,
              table |-> [table EXCEPT ![CHOOSE i \in match : TRUE] =
                            [@ EXCEPT !.min_value = MinSeq(values),
                                      !.max_value = MaxSeq(values),
                                      !.avg_value = AvgSeq(values),
                                      !.count = Len(values)]]]
        ELSE [ok |-> TRUE,
              table |-> Append(table,
                            [mac_address |-> mac_address, year |-> year,
                             month |-> month, metric_name |-> metric_name,
                             min_value |-> MinSeq(values),
                             max_value |-> MaxSeq(values),
                             avg_value |-> AvgSeq(values),
                             count |-> Len(values)])]

RECURSIVE UpsertMonthlyAll(_, _, _, _, _, _)
UpsertMonthlyAll(res, mac_address, year, month, rows, names) ==
    IF names = <<>> THEN res
    ELSE UpsertMonthlyAll(
             UpsertMonthly(res, mac_address, year, month, Head(names),
                           MetricValues(rows, Head(names))),
             mac_address, year, month, rows, Tail(names))

\* a recompute that deletes the rows of the device and the month and
\* inserts the rows of the metrics it finds
update_monthly_aggregates_rebuild(table, readings, mac_address, ts) ==
    LET year == YearOf(ts)
        month == MonthOf(ts)
        rows == SelectMonth(readings, mac_address, year, month)
        kept == SelectSeq(table, LAMBDA r :
                    ~(/\ r.mac_address = mac_address
                      /\ r.year = year
                      /\ r.month = month))
    IN  IF rows = <<>> THEN [ok |-> TRUE, table |-> kept]
        ELSE UpsertMonthlyAll([ok |-> TRUE, table |-> kept], mac_address,
                              year, month, rows, KeySeq(MetricNames(rows)))

\* update_monthly_aggregates(mac_address, ts) on the tables given: the new
\* monthly table, or ok = FALSE when the upsert raised.
update_monthly_aggregates(table, readings, mac_address, ts) ==
    LET year == YearOf(ts)
        month == MonthOf(ts)
        rows == SelectMonth(readings, mac_address, year, month)
    IN  IF rows = <<>> THEN [ok |-> TRUE, table |-> table]
        ELSE UpsertMonthlyAll([ok |-> TRUE, table |-> table], mac_address,
                              year, month, rows, KeySeq(MetricNames(rows)))

\* One pass of the yearly upsert loop.
UpsertYearly(res, mac_address, year, metric_name, values) ==
    LET table == res.table
        match == {i \in 1..Len(table) :
                     /\ table[i].mac_address = mac_address
                     /\ table[i].year = year
                     /\ table[i].metric_name = metric_name}
    IN  IF ~res.ok \/ Cardinality(match) > 1 THEN [ok |-> FALSE, table |-> table]
        ELSE IF match # {}
        THEN [ok |-> TRUE,
              table |-> [table EXCEPT ![CHOOSE i \in match : TRUE] =
                            [@ EXCEPT !.min_value = MinSeq(values),
                                      !.max_value = MaxSeq(values),
                                      !.avg_value = AvgSeq(values),
                                      !.count = Len(values)]]]
        ELSE [ok |-> TRUE,
              table |-> Append(table,
                            [mac_address |-> mac_address, year |-> year,
                             metric_name |-> metric_name,
                             min_value |-> MinSeq(values),
                             max_value |-> MaxSeq(values),
                             avg_value |-> AvgSeq(values),
                             count |-> Len(values)])]

RECURSIVE UpsertYearlyAll(_, _, _, _, _)
UpsertYearlyAll(res, mac_address, year, rows, names) ==
    IF names = <<>> THEN res
    ELSE UpsertYearlyAll(
             UpsertYearly(res, mac_address, year, Head(names),
                          MetricValues(rows, Head(names))),
             mac_address, year, rows, Tail(names))

\* update_yearly_aggregates(mac_address, ts) on the tables given.
update_yearly_aggregates(table, readings, mac_address, ts) ==
    LET year == YearOf(ts)
        rows == SelectYear(readings, mac_address, year)
    IN  IF rows = <<>> THEN [ok |-> TRUE, table |-> table]
        ELSE UpsertYearlyAll([ok |-> TRUE, table |-> table], mac_address,
                             year, rows, KeySeq(MetricNames(rows)))

\* an insert that writes over the device's row of the same timestamp
InsertReadingReplace(readings, now, mac_address, converted) ==
    LET same == {i \in 1..Len(readings) :
                    /\ readings[i].mac_address = mac_address
                    /\ readings[i].timestamp = now}
    IN  IF same = {}
        THEN Append(readings, [timestamp |-> now, mac_address |-> mac_address,
                               data |-> converted])
        ELSE [i \in 1..Len(readings) |->
                 IF i \in same
                 THEN [readings[i] EXCEPT !.data = converted]
                 ELSE readings[i]]

\* store_daily_reading's insert
InsertReading(readings, now, mac_address, converted) ==
    Append(readings, [timestamp |-> now, mac_address |-> mac_address,
                      data |-> converted])

\* a where clause that takes the row at the cutoff too
PurgeHitInclusive(r, mac_address, cutoff) ==
    r.mac_address = mac_address /\ r.timestamp <= cutoff

\* the rows purge_old_readings deletes
PurgeHit(r, mac_address, cutoff) ==
    r.mac_address = mac_address /\ r.timestamp < cutoff

\* result.rowcount: the number of rows the delete matched
Rowcount(readings, mac_address, cutoff) ==
    Cardinality({i \in 1..Len(readings) :
                    PurgeHit(readings[i], mac_address, cutoff)})

\* a delete that is executed but whose session is never committed
PurgeKeepUncommitted(readings, mac_address, cutoff) == readings

\* purge_old_readings' delete: the rows that stay
PurgeKeep(readings, mac_address, cutoff) ==
    SelectSeq(readings, LAMBDA r : ~PurgeHit(r, mac_address, cutoff))

(***************************************************************************)
(* The Broadcaster: the registry is the list of the registered queues      *)
(* (a queue is named by the connection that owns it), queues maps each     *)
(* queue to its undelivered readings.                                      *)
(***************************************************************************)
\* asyncio.Queue.full()
QueueFull(q) == Len(q) >= QueueMaxSize

\* put_nowait as a stack would do it: the newest reading first
PutNowaitFront(q, data) == IF QueueFull(q) THEN q ELSE <<data>> \o q

\* put_nowait on a queue with no maxsize
PutNowaitUnbounded(q, data) == Append(q, data)

\* queue.put_nowait(data), QueueFull swallowed by publish
PutNowait(q, data) == IF QueueFull(q) THEN q ELSE Append(q, data)

\* publish's for loop from position i of the registry
RECURSIVE PublishFrom(_, _, _, _)
PublishFrom(subs, i, queues, data) ==
    IF i > Len(subs) THEN queues
    ELSE PublishFrom(subs, i + 1,
                     [queues EXCEPT ![subs[i]] = PutNowait(@, data)], data)

\* a publish that walks the registry a second time
publishTwice(subs, queues, data) ==
    PublishFrom(subs, 1, PublishFrom(subs, 1, queues, data), data)

\* Broadcaster.publish(data): the queues after the call
publish(subs, queues, data) == PublishFrom(subs, 1, queues, data)

\* self._subscribers.append(queue)
Register(subs, q) == Append(subs, q)

\* a remove that drops the newest registration, whichever queue it is
DeregisterLast(subs, q) ==
    IF subs = <<>> THEN subs ELSE SubSeq(subs, 1, Len(subs) - 1)

\* self._subscribers.remove(queue): the first occurrence goes
Deregister(subs, q) ==
    IF q \notin Range(subs) THEN subs
    ELSE LET i == CHOOSE j \in 1..Len(subs) :
                      subs[j] = q /\ \A k \in 1..(j - 1) : subs[k] # q
         IN  SubSeq(subs, 1, i - 1) \o SubSeq(subs, i + 1, Len(subs))

(***************************************************************************)
(* The inputs.                                                             *)
(***************************************************************************)
Consumers == 1..MaxConsumers

\* raw readings the station API answers with (a dict as its items in order)
Raw1 ==
    << <<"tempf", Num(7200)>>, <<"windspeedmph", Num(500)>>,
       <<"macAddress", Str("AA:BB")>> >>

Raw2 ==
    << <<"tempf", Num(6170)>>, <<"humidity", Num(4000)>>,
       <<"dateutc", Num(170390880)>>, <<"date", Str("2023-12-30T00:00:00Z")>> >>

Raws == {Raw1, Raw2}

\* every raw dict of up to MaxRawLen items over a mapped key, the name it
\* maps to, an unknown key and the four metadata keys
RawKeys ==
    {"tempf", "temp_c", "batteryVoltage", "macAddress", "device", "loc",
     "lastRain"}

RawValues == {Num(7200), Str("x")}

RawItems == {<<k, v>> : k \in RawKeys, v \in RawValues}

RECURSIVE DictsOfLen(_)
DictsOfLen(n) ==
    IF n = 0 THEN {<<>>}
    ELSE {Append(x[1], x[2]) :
             x \in {y \in DictsOfLen(n - 1) \X RawItems :
                       \A i \in 1..Len(y[1]) : y[1][i][1] # y[2][1]}}

RawInputs == Raws \cup UNION {DictsOfLen(n) : n \in 0..MaxRawLen}

\* what awaiting the fetch can end in
FetchOutcomes ==
    {"data", "not_a_dict", "nodata", "rate_limited", "http_error",
     "request_error", "other_error"}

\* the configuration with every key set
FullSettings ==
    [awn_api_key |-> "key", awn_application_key |-> "app",
     awn_mac_address |-> "M1"]

\* the configurations: each of the three keys set or left at its default ""
SettingsChoices ==
    {[awn_api_key |-> a, awn_application_key |-> b, awn_mac_address |-> m] :
        a \in {"", "key"}, b \in {"", "app"}, m \in {"", "M1"}}

\* 30 December 2023
StartDay == 363

\* what the database file holds when the process starts: nothing, or the rows
\* earlier runs left (two old readings of this station, one of another station)
SeedReadings ==
    << [timestamp |-> 331, mac_address |-> "M1",
        data |-> [k \in {"temp_c"} |-> Num(1000)]],
       [timestamp |-> 354, mac_address |-> "M1",
        data |-> [k \in {"temp_c", "humidity"} |->
                     IF k = "temp_c" THEN Num(1650) ELSE Num(5000)]],
       [timestamp |-> 363, mac_address |-> "M2",
        data |-> [k \in {"temp_c"} |-> Num(500)]] >>

SeedMonthly ==
    LET a == update_monthly_aggregates(<<>>, SeedReadings, "M1", 331).table
        b == update_monthly_aggregates(a, SeedReadings, "M1", 354).table
    IN  update_monthly_aggregates(b, SeedReadings, "M2", 363).table

SeedYearly ==
    LET a == update_yearly_aggregates(<<>>, SeedReadings, "M1", 354).table
    IN  update_yearly_aggregates(a, SeedReadings, "M2", 363).table

\* a store whose readings lie around the cutoff of the first purge
OldReadings ==
    << [timestamp |-> 340, mac_address |-> "M2",
        data |-> [k \in {"temp_c"} |-> Num(300)]],
       [timestamp |-> 355, mac_address |-> "M1",
        data |-> [k \in {"temp_c"} |-> Num(900)]],
       [timestamp |-> 356, mac_address |-> "M1",
        data |-> [k \in {"temp_c"} |-> Num(800)]] >>

OldMonthly ==
    LET a == update_monthly_aggregates(<<>>, OldReadings, "M2", 340).table
    IN  update_monthly_aggregates(a, OldReadings, "M1", 356).table

OldYearly ==
    LET a == update_yearly_aggregates(<<>>, OldReadings, "M2", 340).table
    IN  update_yearly_aggregates(a, OldReadings, "M1", 356).table

InitialStores ==
    { [readings |-> <<>>, monthly |-> <<>>, yearly |-> <<>>],
      [readings |-> SeedReadings, monthly |-> SeedMonthly,
       yearly |-> SeedYearly],
      [readings |-> OldReadings, monthly |-> OldMonthly,
       yearly |-> OldYearly] }

(***************************************************************************)
(* The state.                                                              *)
(***************************************************************************)
VARIABLES
    settings,        \* app.config.settings
    pc,              \* where the collector task stands
    tick,            \* ticks started
    now,             \* the UTC clock, in days
    clockSteps,      \* times the clock moved
    raw,             \* collection_loop's raw, what the last fetch returned
    converted,       \* collection_loop's converted
    deleted,         \* collection_loop's deleted, what the last purge returned
    ts,              \* collection_loop's ts
    cutoff,          \* purge_old_readings' cutoff
    outcome,         \* how the current (or last) tick went
    failed,          \* the step of the tick that raised, "" when none did
    slept,           \* the asyncio.sleep calls since the last fetch answer
    daily_readings,  \* table daily_readings
    monthly_aggregates, \* table monthly_aggregates
    yearly_aggregates,  \* table yearly_aggregates
    subscribers,     \* Broadcaster._subscribers
    queues,          \* the content of each connection's asyncio.Queue
    cpc,             \* where each connection's generator stands
    pubLog,          \* history: the readings published, in order
    subAt,           \* history: Len(pubLog) when the connection subscribed
    delivered,       \* history: the readings each connection was handed
    putCount,        \* history: enqueue attempts made on each queue
    dropped,         \* history: the queues a publish found full
    closedBy,        \* history: what ran each connection's finally clause
    trail            \* history: the steps each tick completed, tick by tick

loopVars == <<pc, tick, raw, converted, deleted, ts, cutoff, outcome, failed, slept>>
clockVars == <<now, clockSteps>>
storeVars == <<daily_readings, monthly_aggregates, yearly_aggregates>>
bcastVars == <<subscribers, queues, cpc>>
histVars == <<pubLog, subAt, delivered, putCount, dropped, closedBy>>
vars == <<settings, loopVars, clockVars, storeVars, bcastVars, histVars, trail>>

\* what raw can hold: nothing yet, None, a dict (its items in order), or a
\* JSON value that is not a dict
NoRaw == [kind |-> "unset", items |-> <<>>]
NoneRaw == [kind |-> "None", items |-> <<>>]
DictRaw(items) == [kind |-> "dict", items |-> items]
OtherRaw == [kind |-> "other", items |-> <<>>]

\* history: a new tick starts; the running tick completed the steps given
NewTick(tr) == Append(tr, <<>>)
Did(tr, steps) == [tr EXCEPT ![Len(tr)] = @ \o steps]

InitWith(cfg, store) ==
    /\ settings = cfg
    /\ pc = "startup"
    /\ tick = 0
    /\ now = StartDay
    /\ clockSteps = 0
    /\ raw = NoRaw
    /\ converted = EmptyDict
    /\ deleted = 0
    /\ ts = 0
    /\ cutoff = 0
    /\ outcome = "none"
    /\ failed = ""
    /\ slept = <<>>
    /\ daily_readings = store.readings
    /\ monthly_aggregates = store.monthly
    /\ yearly_aggregates = store.yearly
    /\ subscribers = <<>>
    /\ queues = [c \in Consumers |-> <<>>]
    /\ cpc = [c \in Consumers |-> "idle"]
    /\ pubLog = <<>>
    /\ subAt = [c \in Consumers |-> 0]
    /\ delivered = [c \in Consumers |-> <<>>]
    /\ putCount = [c \in Consumers |-> 0]
    /\ dropped = {}
    /\ closedBy = [c \in Consumers |-> ""]
    /\ trail = <<>>

Init == \E store \in InitialStores : InitWith(FullSettings, store)

(***************************************************************************)
(* The clock.                                                              *)
(***************************************************************************)
ClockAdvance ==
    /\ clockSteps < MaxClockSteps
    /\ now' = now + 1
    /\ clockSteps' = clockSteps + 1
    /\ UNCHANGED <<settings, loopVars, trail, storeVars, bcastVars, histVars>>

(***************************************************************************)
(* lifespan and collection_loop.  pc names the await the task is suspended *)
(* at; an action is the code that runs from one await to the next.         *)
(***************************************************************************)
\* lifespan's startup: the collector task is created when the keys are set
Startup ==
    /\ pc = "startup"
    /\ IF settings.awn_api_key # "" /\ settings.awn_mac_address # ""
       THEN pc' = "fetch" /\ tick' = 1 /\ trail' = NewTick(trail)
       ELSE pc' = "disabled" /\ UNCHANGED <<tick, trail>>
    /\ UNCHANGED <<settings, raw, converted, deleted, ts, cutoff, outcome, failed, slept, clockVars,
                   storeVars, bcastVars, histVars>>

\* Mutant: the loop without its last clause, except Exception.
HandlerNoCatchAll(kind) ==
    IF kind = "rate_limited" THEN "backoff"
    ELSE IF kind = "http_error" THEN "sleep"
    ELSE IF kind = "request_error" THEN "sleep"
    ELSE kind

\* a generic clause that goes round the loop at once (continue) instead of
\* falling through to the interval sleep
HandlerRetryAtOnce(kind) ==
    IF kind = "rate_limited" THEN "backoff"
    ELSE IF kind = "http_error" THEN "sleep"
    ELSE IF kind = "request_error" THEN "sleep"
    ELSE IF kind = "unexpected" THEN "fetch"
    ELSE kind

\* Mutant: the 429 branch only logs, like the other HTTP statuses.
HandlerNoBackoff(kind) ==
    IF kind \in {"rate_limited", "http_error", "request_error", "unexpected"}
    THEN "sleep"
    ELSE kind

\* The except clauses of the loop: where the task goes when the try block
\* raises.  rate_limited is HTTPStatusError with status 429, http_error
\* another HTTPStatusError, request_error an httpx.RequestError, unexpected
\* any other Exception; cancelled is asyncio.CancelledError, a BaseException.
\* An exception no clause catches ends the task, which then stands at the
\* exception's name.
Handler(kind) ==
    IF kind = "rate_limited" THEN "backoff"
    ELSE IF kind = "http_error" THEN "sleep"
    ELSE IF kind = "request_error" THEN "sleep"
    ELSE IF kind = "unexpected" THEN "sleep"
    ELSE kind

\* The exception a fetch result stands for, "" when fetch returned.
FetchError(result) ==
    CASE result \in {"rate_limited", "http_error", "request_error"} -> result
      [] result = "other_error" -> "unexpected"
      [] OTHER -> ""

\* a try block that purges and publishes what it fetched before anything
\* is stored or aggregated
AfterFetchPublishFirst(result) ==
    IF result = "nodata" THEN "sleep"
    ELSE IF result = "data" THEN "purge"
    ELSE Handler("unexpected")

\* Mutant: the try block without its test of raw is None.
AfterFetchNoNoneTest(result) ==
    IF result \in {"nodata", "data"} THEN "store" ELSE "sleep"

\* The try block after fetch returned raw: None skips to the sleep, a dict
\* is converted and stored, anything else makes convert_reading raise.
AfterFetch(result) ==
    IF result = "nodata" THEN "sleep"
    ELSE IF result = "data" THEN "store"
    ELSE Handler("unexpected")

\* await fetch_latest_reading() ends; on data, convert_reading runs and
\* store_daily_reading starts (it reads the clock before its commit)
FetchReturns(result, items) ==
    /\ pc = "fetch"
    /\ slept' = <<>>
    /\ IF FetchError(result) # ""
       THEN /\ pc' = Handler(FetchError(result))
            /\ outcome' = FetchError(result)
            /\ failed' = "fetch"
            /\ UNCHANGED <<raw, converted, ts, trail>>
       ELSE /\ pc' = AfterFetch(result)
            /\ outcome' = CASE result = "data" -> "running"
                             [] result = "nodata" -> "nodata"
                             [] OTHER -> "unexpected"
            /\ failed' = IF result = "not_a_dict" THEN "convert" ELSE ""
            /\ raw' = CASE result = "data" -> DictRaw(items)
                         [] result = "nodata" -> NoneRaw
                         [] OTHER -> OtherRaw
            /\ IF result = "data"
               THEN /\ converted' = convert_reading(raw'.items)
                    /\ ts' = now
                    /\ trail' = Did(trail, <<"fetch", "convert">>)
               ELSE /\ UNCHANGED <<converted, ts>>
                    /\ trail' = Did(trail, <<"fetch">>)
    /\ UNCHANGED <<settings, tick, deleted, cutoff, clockVars, storeVars, bcastVars,
                   histVars>>

\* every step in a try of its own: the failure is logged and the loop goes
\* on with the step after it
RaiseAndGoOn(step) ==
    /\ pc' = CASE step = "store" -> "monthly"
                [] step = "monthly" -> "yearly"
                [] step = "yearly" -> "purge"
                [] OTHER -> "sleep"
    /\ outcome' = "unexpected"
    /\ failed' = step

\* a later step raises: the generic handler logs and the tick is over
Raise(step) ==
    /\ pc' = Handler("unexpected")
    /\ outcome' = "unexpected"
    /\ failed' = step

\* store_daily_reading's commit ends
StoreReturns(ok) ==
    /\ pc = "store"
    /\ IF ok
       THEN /\ daily_readings' = InsertReading(daily_readings, ts,
                                     settings.awn_mac_address, converted)
            /\ pc' = "monthly"
            /\ trail' = Did(trail, <<"store">>)
            /\ UNCHANGED <<outcome, failed>>
       ELSE /\ Raise("store")
            /\ UNCHANGED <<daily_readings, trail>>
    /\ UNCHANGED <<settings, tick, raw, converted, deleted, ts, cutoff, slept, clockVars,
                   monthly_aggregates, yearly_aggregates, bcastVars, histVars>>

\* update_monthly_aggregates ends
MonthlyReturns(ok) ==
    LET res == update_monthly_aggregates(monthly_aggregates, daily_readings,
                                         settings.awn_mac_address, ts)
    IN  /\ pc = "monthly"
        /\ IF ok /\ res.ok
           THEN /\ monthly_aggregates' = res.table
                /\ pc' = "yearly"
                /\ trail' = Did(trail, <<"monthly">>)
                /\ UNCHANGED <<outcome, failed>>
           ELSE /\ Raise("monthly")
                /\ UNCHANGED <<monthly_aggregates, trail>>
        /\ UNCHANGED <<settings, tick, raw, converted, deleted, ts, cutoff, slept, clockVars,
                       daily_readings, yearly_aggregates, bcastVars, histVars>>

\* update_yearly_aggregates ends; purge_old_readings starts and reads the clock
YearlyReturns(ok) ==
    LET res == update_yearly_aggregates(yearly_aggregates, daily_readings,
                                        settings.awn_mac_address, ts)
    IN  /\ pc = "yearly"
        /\ IF ok /\ res.ok
           THEN /\ yearly_aggregates' = res.table
                /\ cutoff' = now - RetentionDays
                /\ pc' = "purge"
                /\ trail' = Did(trail, <<"yearly">>)
                /\ UNCHANGED <<outcome, failed>>
           ELSE /\ Raise("yearly")
                /\ UNCHANGED <<yearly_aggregates, cutoff, trail>>
        /\ UNCHANGED <<settings, tick, raw, converted, deleted, ts, slept, clockVars,
                       daily_readings, monthly_aggregates, bcastVars, histVars>>

\* history: the enqueue attempts one publish makes on queue q, one for each
\* place q holds in the registry
Attempts(subs, q) == Cardinality({i \in 1..Len(subs) : subs[i] = q})

\* history: the registered queues that are full when a publish starts
Full(subs, qs) == {q \in Range(subs) : QueueFull(qs[q])}

\* purge_old_readings ends; broadcaster.publish(converted) runs without a
\* suspension and the task goes to its interval sleep
PurgeReturns(ok) ==
    /\ pc = "purge"
    /\ IF ok
       THEN /\ daily_readings' = PurgeKeep(daily_readings,
                                     settings.awn_mac_address, cutoff)
            /\ queues' = publish(subscribers, queues, converted)
            /\ pubLog' = Append(pubLog, converted)
            /\ putCount' = [c \in Consumers |->
                               putCount[c] + Attempts(subscribers, c)]
            /\ dropped' = dropped \cup Full(subscribers, queues)
            /\ pc' = "sleep"
            /\ outcome' = "success"
            /\ trail' = Did(trail, <<"purge", "publish">>)
            /\ deleted' = Rowcount(daily_readings, settings.awn_mac_address,
                                   cutoff)
            /\ UNCHANGED failed
       ELSE /\ Raise("purge")
            /\ UNCHANGED <<daily_readings, queues, pubLog, putCount, dropped,
                           trail, deleted>>
    /\ UNCHANGED <<settings, tick, raw, converted, ts, cutoff, slept, clockVars,
                   monthly_aggregates, yearly_aggregates, subscribers, cpc,
                   subAt, delivered, closedBy>>

\* asyncio.sleep(5) of the 429 branch ends
BackoffEnds ==
    /\ pc = "backoff"
    /\ slept' = Append(slept, BackoffSeconds)
    /\ pc' = "sleep"
    /\ UNCHANGED <<settings, tick, raw, converted, deleted, ts, cutoff, outcome, failed,
                   clockVars, storeVars, bcastVars, histVars, trail>>

\* asyncio.sleep(interval) ends and the next tick's fetch starts
SleepEnds ==
    /\ pc = "sleep"
    /\ tick < MaxTicks
    /\ slept' = Append(slept, IntervalSeconds)
    /\ pc' = "fetch"
    /\ tick' = tick + 1
    /\ failed' = ""
    /\ trail' = NewTick(trail)
    /\ UNCHANGED <<settings, raw, converted, deleted, ts, cutoff, outcome, clockVars, storeVars,
                   bcastVars, histVars>>

\* the awaits of the collector task
Awaits == {"fetch", "store", "monthly", "yearly", "purge", "backoff", "sleep"}

\* lifespan's shutdown: collector_task.cancel() raises CancelledError at the
\* await the task is suspended at; no except clause of the loop catches it
CancelCollector ==
    /\ pc \in Awaits
    /\ pc' = Handler("cancelled")
    /\ UNCHANGED <<settings, tick, raw, converted, deleted, ts, cutoff, outcome, failed,
                   slept, clockVars, storeVars, bcastVars, histVars, trail>>

(***************************************************************************)
(* The SSE connections: stream_readings' event_generator driving           *)
(* Broadcaster.subscribe.  A connection is idle (not opened), waiting (in  *)
(* await queue.get()), yielded (a reading handed out, suspended at the     *)
(* yield), abandoned (its task ended while suspended at the yield) or      *)
(* closed (the finally clause has run).                                    *)
(***************************************************************************)
\* the first __anext__: the queue is made and registered, then get() waits
SubscribeStep(c) ==
    /\ cpc[c] = "idle"
    /\ queues' = [queues EXCEPT ![c] = <<>>]
    /\ subscribers' = Register(subscribers, c)
    /\ cpc' = [cpc EXCEPT ![c] = "waiting"]

\* await queue.get() returns the oldest reading and the generator yields it
GetStep(c) ==
    /\ cpc[c] = "waiting"
    /\ queues[c] # <<>>
    /\ queues' = [queues EXCEPT ![c] = Tail(@)]
    /\ cpc' = [cpc EXCEPT ![c] = "yielded"]
    /\ UNCHANGED subscribers

\* the finally clause of subscribe
Cleanup(c) == subscribers' = Deregister(subscribers, c)

Subscribe(c) ==
    /\ SubscribeStep(c)
    /\ subAt' = [subAt EXCEPT ![c] = Len(pubLog)]
    /\ UNCHANGED <<settings, loopVars, trail, clockVars, storeVars, pubLog,
                   delivered, putCount, dropped, closedBy>>

Get(c) ==
    /\ GetStep(c)
    /\ delivered' = [delivered EXCEPT ![c] = Append(@, Head(queues[c]))]
    /\ UNCHANGED <<settings, loopVars, trail, clockVars, storeVars, pubLog, subAt,
                   putCount, dropped, closedBy>>

\* the response sent the event and asks for the next one
AskNext(c) ==
    /\ cpc[c] = "yielded"
    /\ cpc' = [cpc EXCEPT ![c] = "waiting"]
    /\ UNCHANGED <<settings, loopVars, trail, clockVars, storeVars, subscribers,
                   queues, histVars>>

\* the connection's task is cancelled while the generator waits in get():
\* CancelledError is raised there and the finally clause runs
CancelWaiting(c) ==
    /\ cpc[c] = "waiting"
    /\ Cleanup(c)
    /\ cpc' = [cpc EXCEPT ![c] = "closed"]
    /\ closedBy' = [closedBy EXCEPT ![c] = "cancel"]
    /\ UNCHANGED <<settings, loopVars, trail, clockVars, storeVars, queues, pubLog,
                   subAt, delivered, putCount, dropped>>

\* the connection's task ends while the event is being sent: the generator
\* stays suspended at its yield
Disconnect(c) ==
    /\ cpc[c] = "yielded"
    /\ cpc' = [cpc EXCEPT ![c] = "abandoned"]
    /\ UNCHANGED <<settings, loopVars, trail, clockVars, storeVars, subscribers,
                   queues, histVars>>

\* a subscribe without its try/finally: closing the generator at the yield
\* ends it and nothing is deregistered
FinalizeNoFinally(c) ==
    /\ cpc[c] = "abandoned"
    /\ cpc' = [cpc EXCEPT ![c] = "closed"]
    /\ closedBy' = [closedBy EXCEPT ![c] = "aclose"]
    /\ UNCHANGED <<settings, loopVars, trail, clockVars, storeVars, subscribers,
                   queues, pubLog, subAt, delivered, putCount, dropped>>

\* the event loop closes the abandoned generator (aclose): GeneratorExit is
\* raised at the yield and the finally clause runs
Finalize(c) ==
    /\ cpc[c] = "abandoned"
    /\ Cleanup(c)
    /\ cpc' = [cpc EXCEPT ![c] = "closed"]
    /\ closedBy' = [closedBy EXCEPT ![c] = "aclose"]
    /\ UNCHANGED <<settings, loopVars, trail, clockVars, storeVars, queues, pubLog,
                   subAt, delivered, putCount, dropped>>

Collector ==
    \/ Startup
    \/ \E result \in FetchOutcomes, items \in Raws : FetchReturns(result, items)
    \/ \E ok \in BOOLEAN : StoreReturns(ok)
    \/ \E ok \in BOOLEAN : MonthlyReturns(ok)
    \/ \E ok \in BOOLEAN : YearlyReturns(ok)
    \/ \E ok \in BOOLEAN : PurgeReturns(ok)
    \/ BackoffEnds
    \/ SleepEnds
    \/ CancelCollector

Connection(c) ==
    \/ Subscribe(c)
    \/ Get(c)
    \/ AskNext(c)
    \/ CancelWaiting(c)
    \/ Disconnect(c)
    \/ Finalize(c)

(***************************************************************************)
(* The whole system: the collector task, the clock and the connections.    *)
(***************************************************************************)
Next ==
    \/ Collector
    \/ ClockAdvance
    \/ \E c \in Consumers : Connection(c)

Spec == Init /\ [][Next]_vars

(***************************************************************************)
(* The collector and the store alone, no connection open.                  *)
(***************************************************************************)
LoopNext ==
    \/ Collector
    \/ ClockAdvance

LoopSpec == Init /\ [][LoopNext]_vars

\* the same under any configuration, on an empty database
ConfigInit ==
    \E cfg \in SettingsChoices :
        InitWith(cfg, [readings |-> <<>>, monthly |-> <<>>, yearly |-> <<>>])

ConfigSpec == ConfigInit /\ [][LoopNext]_vars

(***************************************************************************)
(* One tick with no failure on an empty database, for any raw dict the     *)
(* fetch may return.                                                       *)
(***************************************************************************)
TickNext ==
    \/ Startup
    \/ pc = "fetch" /\ \E items \in RawInputs : FetchReturns("data", items)
    \/ StoreReturns(TRUE)
    \/ MonthlyReturns(TRUE)
    \/ YearlyReturns(TRUE)
    \/ PurgeReturns(TRUE)

TickSpec ==
    /\ InitWith(FullSettings, [readings |-> <<>>, monthly |-> <<>>, yearly |-> <<>>])
    /\ [][TickNext]_vars

(***************************************************************************)
(* The collector with one connection, the clock standing still.            *)
(***************************************************************************)
StreamNext ==
    \/ Collector
    \/ Connection(1)

StreamSpec == Init /\ [][StreamNext]_vars

(***************************************************************************)
(* The Broadcaster alone: a caller publishes converted readings, the       *)
(* connections subscribe, read and end.                                    *)
(***************************************************************************)
\* await broadcaster.publish(data)
PublishCall(data) ==
    /\ Len(pubLog) < MaxPublish
    /\ queues' = publish(subscribers, queues, data)
    /\ pubLog' = Append(pubLog, data)
    /\ putCount' = [c \in Consumers |-> putCount[c] + Attempts(subscribers, c)]
    /\ dropped' = dropped \cup Full(subscribers, queues)
    /\ UNCHANGED <<settings, loopVars, trail, clockVars, storeVars, subscribers, cpc,
                   subAt, delivered, closedBy>>

BroadcastNext ==
    \/ \E items \in Raws : PublishCall(convert_reading(items))
    \/ \E c \in Consumers : Connection(c)

\* the database empty: the Broadcaster reads no table
BroadcastInit == InitWith(FullSettings, [readings |-> <<>>, monthly |-> <<>>, yearly |-> <<>>])

BroadcastSpec == BroadcastInit /\ [][BroadcastNext]_vars

\* the event loop runs a generator that can run: a cancelled task is thrown
\* into, an abandoned generator is closed
FairBroadcastSpec ==
    /\ BroadcastSpec
    /\ \A c \in Consumers : WF_vars(Finalize(c))

(***************************************************************************)
(* The Broadcaster with queues that fill: any number of publishes of one   *)
(* reading to two connections that stay open and read at their own pace,   *)
(* the histories of the readings not kept.                                 *)
(***************************************************************************)
FillPublish ==
    /\ queues' = publish(subscribers, queues, convert_reading(Raw1))
    /\ dropped' = dropped \cup Full(subscribers, queues)
    /\ UNCHANGED <<settings, loopVars, trail, clockVars, storeVars, subscribers, cpc,
                   pubLog, subAt, delivered, putCount, closedBy>>

FillSubscribe(c) ==
    /\ SubscribeStep(c)
    /\ UNCHANGED <<settings, loopVars, trail, clockVars, storeVars, histVars>>

FillGet(c) ==
    /\ GetStep(c)
    /\ UNCHANGED <<settings, loopVars, trail, clockVars, storeVars, histVars>>

FillConnection(c) ==
    \/ FillSubscribe(c)
    \/ FillGet(c)
    \/ AskNext(c)

FillNext ==
    \/ FillPublish
    \/ FillConnection(1)
    \/ FillConnection(2)

FillSpec == BroadcastInit /\ [][FillNext]_vars

(***************************************************************************)
(* The collector under the event loop's scheduling: an await that can      *)
(* return does return (the fetch has a timeout, a sleep ends, the database *)
(* answers), so the step after it runs.                                    *)
(***************************************************************************)
CollectorStep ==
    \/ Startup
    \/ \E result \in FetchOutcomes, items \in Raws : FetchReturns(result, items)
    \/ \E ok \in BOOLEAN : StoreReturns(ok)
    \/ \E ok \in BOOLEAN : MonthlyReturns(ok)
    \/ \E ok \in BOOLEAN : YearlyReturns(ok)
    \/ \E ok \in BOOLEAN : PurgeReturns(ok)
    \/ BackoffEnds
    \/ SleepEnds

FairLoopSpec == LoopSpec /\ WF_vars(CollectorStep)

(***************************************************************************)
(* The claims.                                                             *)
(***************************************************************************)
\* the collector task is over
Ended == pc \notin (Awaits \cup {"startup", "disabled"})

\* C1: no failure of a step stops the loop.  The task ends by cancellation
\* only; a step that raises sends the task to the interval sleep (by way of
\* the backoff after a 429); and whatever happens in tick k, the fetch of
\* tick k + 1 follows unless the task is cancelled.
C1_LoopNeverStops ==
    /\ [](Ended => pc = "cancelled")
    /\ [][failed = "" /\ failed' # "" => pc' \in {"sleep", "backoff"}]_vars
    /\ \A k \in 1..(MaxTicks - 1) :
           (tick = k /\ pc \in Awaits)
               ~> ((tick = k + 1 /\ pc = "fetch") \/ pc = "cancelled")

\* C1 witness: the second tick's fetch has started after a tick that stored
\* its reading and then raised in the monthly aggregation.
C1_Witness ==
    /\ tick = 2 /\ pc = "fetch" /\ outcome = "unexpected"
    /\ Len(daily_readings) = 1 /\ monthly_aggregates = <<>>

\* the outcomes of a tick whose fetch gave nothing to store
FetchFailures == {"nodata", "rate_limited", "http_error", "request_error"}

\* C2: from the answer of a fetch that returned no data or failed with 429,
\* another HTTP status or a transport error, until the next fetch is
\* answered, no step changes a table, publishes, or adds to a queue.
C2_FailedFetchChangesNothing ==
    [][outcome' \in FetchFailures =>
          /\ UNCHANGED <<storeVars, pubLog, putCount, dropped>>
          /\ \A c \in Consumers :
                 \/ queues'[c] = queues[c]
                 \/ queues[c] # <<>> /\ queues'[c] = Tail(queues[c])
                 \/ queues'[c] = <<>>]_vars

\* C2 witness: a tick answered with 429 is over, a reading is stored from
\* the tick before and a subscriber is registered.
C2_Witness ==
    /\ tick = 2 /\ pc = "sleep" /\ outcome = "rate_limited"
    /\ daily_readings # <<>>
    /\ subscribers = <<1>>
    /\ Len(pubLog) = 1

\* C3: when a fetch starts, the sleeps made since the previous fetch was
\* answered are the 5-second backoff followed by the interval if that
\* answer was a 429, and the interval alone after any other outcome.
C3_BackoffOnlyAfter429 ==
    (pc = "fetch" /\ tick > 1) =>
        slept = IF outcome = "rate_limited"
                THEN <<BackoffSeconds, IntervalSeconds>>
                ELSE <<IntervalSeconds>>

\* C3 witness: the fetch after a 429 starts.
C3_Witness ==
    pc = "fetch" /\ tick = 2 /\ outcome = "rate_limited"
    /\ slept = <<5, 60>>

\* the connections whose generator is between its subscribe and its cleanup
Live == {c \in Consumers : cpc[c] \in {"waiting", "yielded", "abandoned"}}

\* what was published since connection c subscribed
PublishedSince(c) == SubSeq(pubLog, subAt[c] + 1, Len(pubLog))

\* C4: as long as no publish found its queue full, what a subscriber has
\* been handed followed by what waits in its queue is exactly what was
\* published since it subscribed, in publish order; nothing published
\* before the subscription is in it.  After its cleanup what it was handed
\* is a prefix of that.
C4_ReceivesWhatIsPublished ==
    \A c \in Consumers :
        c \notin dropped =>
            /\ c \in Live => delivered[c] \o queues[c] = PublishedSince(c)
            /\ cpc[c] = "closed" =>
                  /\ Len(delivered[c]) <= Len(PublishedSince(c))
                  /\ delivered[c] =
                         SubSeq(PublishedSince(c), 1, Len(delivered[c]))

\* C4 witness: two different readings were published; the connection that
\* subscribed first was handed both in order, the one that subscribed
\* between them was handed the second only.
C4_Witness ==
    /\ Len(pubLog) = 2 /\ pubLog[1] # pubLog[2]
    /\ subAt[1] = 0 /\ delivered[1] = pubLog
    /\ subAt[2] = 1 /\ delivered[2] = <<pubLog[2]>>

\* C5: a queue never holds more than 100 readings, and a publish leaves a
\* full queue and the queues out of the registry as they are and appends
\* the reading to every other registered queue.
C5_FullQueueDropsForItAlone ==
    /\ [](\A c \in Consumers : Len(queues[c]) <= QueueMaxSize)
    /\ [][cpc' = cpc =>
            \A c \in Consumers :
                queues'[c] =
                    IF c \in Range(subscribers) /\ Len(queues[c]) < QueueMaxSize
                    THEN Append(queues[c], convert_reading(Raw1))
                    ELSE queues[c]]_vars

\* C5 witness: a publish found the queue of connection 1 holding 100
\* readings; connection 2, registered as well, never lost a reading and
\* has one waiting.
C5_Witness ==
    /\ 1 \in dropped /\ Len(queues[1]) = QueueMaxSize
    /\ 2 \notin dropped /\ cpc[2] = "waiting" /\ Len(queues[2]) = 1

\* C6: a connection whose cleanup has run is not in the registry; the
\* cleanup takes exactly its entry out (the count one lower, the other
\* entries as they were); and from then on no publish touches its queue.
C6_UnsubscribedIsGone ==
    /\ [](\A c \in Consumers : cpc[c] = "closed" => c \notin Range(subscribers))
    /\ [][\A c \in Consumers :
            /\ (cpc[c] # "closed" /\ cpc'[c] = "closed") =>
                  /\ Len(subscribers') = Len(subscribers) - 1
                  /\ subscribers' = SelectSeq(subscribers, LAMBDA x : x # c)
            /\ cpc[c] = "closed" =>
                  /\ queues'[c] = queues[c]
                  /\ putCount'[c] = putCount[c]]_vars

\* C6 witness: connection 1 subscribed before the first publish, was given
\* it, and was cleaned up; the second publish went to connection 2 alone.
C6_Witness ==
    /\ cpc[1] = "closed" /\ subAt[1] = 0 /\ putCount[1] = 1
    /\ subscribers = <<2>> /\ subAt[2] = 0 /\ putCount[2] = 2

\* C7: a connection cancelled in its wait for a reading is out of the
\* registry at once; a connection whose consumer went away after a reading
\* was yielded is out of the registry eventually; and whenever no such
\* generator awaits its closing, the registry holds one entry per
\* connection that waits or is being served.
C7_CleanupHoweverItEnds ==
    /\ \A c \in Consumers :
           cpc[c] = "abandoned" ~> (cpc[c] = "closed" /\ c \notin Range(subscribers))
    /\ [][\A c \in Consumers :
            (cpc[c] = "waiting" /\ cpc'[c] = "closed") =>
                c \notin Range(subscribers')]_vars
    /\ []((\A c \in Consumers : cpc[c] # "abandoned") =>
            Len(subscribers) =
                Cardinality({c \in Consumers : cpc[c] \in {"waiting", "yielded"}}))

\* C7 witness: one connection was cancelled in its wait, the other was
\* closed at its yield after its consumer left, and the registry is empty.
C7_Witness ==
    /\ closedBy[1] = "cancel" /\ closedBy[2] = "aclose"
    /\ delivered[2] # <<>> /\ subscribers = <<>>

\* the stored readings (by position) of the collector's device that fall in
\* the month, resp. the year, of ts and carry metric k as a numeric field
MonthReadings(k) ==
    {i \in 1..Len(daily_readings) :
        /\ daily_readings[i].mac_address = settings.awn_mac_address
        /\ YearOf(daily_readings[i].timestamp) = YearOf(ts)
        /\ MonthOf(daily_readings[i].timestamp) = MonthOf(ts)
        /\ k \in DOMAIN get_numeric_fields(daily_readings[i].data)}

YearReadings(k) ==
    {i \in 1..Len(daily_readings) :
        /\ daily_readings[i].mac_address = settings.awn_mac_address
        /\ YearOf(daily_readings[i].timestamp) = YearOf(ts)
        /\ k \in DOMAIN get_numeric_fields(daily_readings[i].data)}

\* every metric some stored reading carries
AllMetrics ==
    UNION {DOMAIN get_numeric_fields(daily_readings[i].data) :
              i \in 1..Len(daily_readings)}

\* the value of metric k in the reading at position i
ValueAt(i, k) == get_numeric_fields(daily_readings[i].data)[k]

RECURSIVE TotalOver(_, _)
TotalOver(I, k) ==
    IF I = {} THEN 0
    ELSE LET i == CHOOSE x \in I : TRUE
         IN  ValueAt(i, k) + TotalOver(I \ {i}, k)

\* row holds the statistics of metric k over the readings at positions I:
\* the least and the greatest value, their number, and the mean rounded to
\* the nearest hundredth (to the even one when two are as near)
HoldsStatistics(row, I, k) ==
    LET n == Cardinality(I)
        total == TotalOver(I, k)
        off == row.avg_value * n - total
        dist == IF off < 0 THEN -off ELSE off
    IN  /\ \E i \in I : ValueAt(i, k) = row.min_value
        /\ \A i \in I : ValueAt(i, k) >= row.min_value
        /\ \E i \in I : ValueAt(i, k) = row.max_value
        /\ \A i \in I : ValueAt(i, k) <= row.max_value
        /\ row.count = n
        /\ 2 * dist <= n
        /\ 2 * dist = n => row.avg_value % 2 = 0

\* C9: when update_monthly_aggregates has returned, every metric of the
\* device's stored readings of the month of ts has a monthly row holding
\* its minimum, maximum, rounded mean and count over those readings; when
\* update_yearly_aggregates has returned, the same holds of the yearly rows
\* and the readings of the year.
C9_AggregatesMatchReadings ==
    /\ pc = "yearly" =>
          \A k \in AllMetrics :
              MonthReadings(k) # {} =>
                  \E j \in 1..Len(monthly_aggregates) :
                      LET row == monthly_aggregates[j]
                      IN  /\ row.mac_address = settings.awn_mac_address
                          /\ row.year = YearOf(ts)
                          /\ row.month = MonthOf(ts)
                          /\ row.metric_name = k
                          /\ HoldsStatistics(row, MonthReadings(k), k)
    /\ pc = "purge" =>
          \A k \in AllMetrics :
              YearReadings(k) # {} =>
                  \E j \in 1..Len(yearly_aggregates) :
                      LET row == yearly_aggregates[j]
                      IN  /\ row.mac_address = settings.awn_mac_address
                          /\ row.year = YearOf(ts)
                          /\ row.metric_name = k
                          /\ HoldsStatistics(row, YearReadings(k), k)

\* C9 witness: both recomputes have returned; the month holds the values
\* 16.5 and 22.22 of temp_c and its row says min 16.5, max 22.22, avg 19.36,
\* count 2; the year holds a third value, 10.0.
C9_Witness ==
    /\ pc = "purge"
    /\ \E j \in 1..Len(monthly_aggregates) :
           monthly_aggregates[j] =
               [mac_address |-> "M1", year |-> 2023, month |-> 12,
                metric_name |-> "temp_c", min_value |-> 1650,
                max_value |-> 2222, avg_value |-> 1936, count |-> 2]
    /\ \E j \in 1..Len(yearly_aggregates) :
           /\ yearly_aggregates[j].metric_name = "temp_c"
           /\ yearly_aggregates[j].mac_address = "M1"
           /\ yearly_aggregates[j].min_value = 1000
           /\ yearly_aggregates[j].count = 3

\* the key of a monthly row, of a yearly row
MonthlyKey(row) == <<row.mac_address, row.year, row.month, row.metric_name>>
YearlyKey(row) == <<row.mac_address, row.year, row.metric_name>>

\* C10: no two rows of the monthly table have the same (device, year,
\* month, metric), no two rows of the yearly table the same (device, year,
\* metric); and a row keeps its place and its key for good, so a recompute
\* writes over the row of a key that has one.
C10_OneRowPerKey ==
    /\ [](\A i, j \in 1..Len(monthly_aggregates) :
            MonthlyKey(monthly_aggregates[i]) = MonthlyKey(monthly_aggregates[j])
                => i = j)
    /\ [](\A i, j \in 1..Len(yearly_aggregates) :
            YearlyKey(yearly_aggregates[i]) = YearlyKey(yearly_aggregates[j])
                => i = j)
    /\ [][/\ Len(monthly_aggregates') >= Len(monthly_aggregates)
          /\ \A i \in 1..Len(monthly_aggregates) :
                 MonthlyKey(monthly_aggregates'[i]) = MonthlyKey(monthly_aggregates[i])
          /\ Len(yearly_aggregates') >= Len(yearly_aggregates)
          /\ \A i \in 1..Len(yearly_aggregates) :
                 YearlyKey(yearly_aggregates'[i]) = YearlyKey(yearly_aggregates[i])]_vars

\* C10 witness: after two successful ticks on the seeded store the December
\* temp_c row, there from the start with count 1, has been written over
\* twice, and a wind_speed_kmh row has been added.
C10_Witness ==
    /\ tick = 2 /\ pc = "sleep" /\ outcome = "success"
    /\ Len(monthly_aggregates) > Len(SeedMonthly)
    /\ \E j \in 1..Len(SeedMonthly) :
           /\ MonthlyKey(monthly_aggregates[j]) = <<"M1", 2023, 12, "temp_c">>
           /\ SeedMonthly[j].count = 1
           /\ monthly_aggregates[j].count = 3
    /\ \E j \in (Len(SeedMonthly) + 1)..Len(monthly_aggregates) :
           monthly_aggregates[j].metric_name = "wind_speed_kmh"

\* the recompute run once more on the tables as they stand
MonthlyAgain ==
    update_monthly_aggregates(monthly_aggregates, daily_readings,
                              settings.awn_mac_address, ts)

YearlyAgain ==
    update_yearly_aggregates(yearly_aggregates, daily_readings,
                             settings.awn_mac_address, ts)

\* C11: once the monthly recompute has returned and the readings are as it
\* found them, a second run for the same device and month returns and
\* leaves the monthly table as the first run left it; the same for the
\* yearly recompute and the yearly table.
C11_RecomputeIdempotent ==
    /\ pc \in {"yearly", "purge"} =>
          MonthlyAgain.ok /\ MonthlyAgain.table = monthly_aggregates
    /\ pc = "purge" =>
          YearlyAgain.ok /\ YearlyAgain.table = yearly_aggregates

\* C11 witness: in the second tick both recomputes have returned, each
\* having written over a row that the first tick had written over before.
C11_Witness ==
    /\ tick = 2 /\ pc = "purge"
    /\ \E j \in 1..Len(monthly_aggregates) : monthly_aggregates[j].count = 3
    /\ \E j \in 1..Len(yearly_aggregates) : yearly_aggregates[j].count = 4

\* the number of rows of a table equal to r
Count(table, r) == Cardinality({i \in 1..Len(table) : table[i] = r})

\* the readings the purge is to delete: the device's, older than the cutoff
Expired(r) ==
    r.mac_address = settings.awn_mac_address /\ r.timestamp < cutoff

\* C12: the purge takes its cutoff as the clock less the retention window;
\* when it returns, every reading of the device older than the cutoff is
\* gone and every other row (at the cutoff or later, or of another device)
\* is there as often as before; the number returned is the number of rows
\* gone; and the tick goes on to the publish whatever that number is.
C12_PurgeDeletesExactlyTheExpired ==
    /\ [][pc = "yearly" /\ pc' = "purge" => cutoff' = now - RetentionDays]_vars
    /\ [][pc = "purge" /\ pc' = "sleep" /\ failed' # "purge" =>
            /\ \A r \in Range(daily_readings) :
                   Count(daily_readings', r) =
                       IF Expired(r) THEN 0 ELSE Count(daily_readings, r)
            /\ Range(daily_readings') \subseteq Range(daily_readings)
            /\ deleted' = Len(daily_readings) - Len(daily_readings')
            /\ outcome' = "success"
            /\ pubLog' = Append(pubLog, converted)]_vars

\* C12 witness: a purge returned 1, and left in the store a reading of the
\* device dated at the cutoff and an older reading of another device.
C12_Witness ==
    /\ pc = "sleep" /\ outcome = "success" /\ deleted = 1
    /\ \E i \in 1..Len(daily_readings) :
           /\ daily_readings[i].mac_address = settings.awn_mac_address
           /\ daily_readings[i].timestamp = cutoff
    /\ \E i \in 1..Len(daily_readings) :
           /\ daily_readings[i].mac_address # settings.awn_mac_address
           /\ daily_readings[i].timestamp < cutoff

\* the reading the running tick stores
TickReading ==
    [timestamp |-> ts, mac_address |-> settings.awn_mac_address,
     data |-> converted]

\* C13: the insert leaves the aggregate tables alone and a recompute that
\* raises leaves the whole store alone, so after such a tick the reading
\* is stored and the aggregates are what they were before it; and when a
\* later monthly (yearly) recompute returns, every stored reading of the
\* device in the month (year) of ts, whichever tick stored it, is counted
\* in the row of each of its metrics and lies between the row's min and
\* max.
C13_LateAggregationCatchesUp ==
    /\ [][pc = "store" => UNCHANGED <<monthly_aggregates, yearly_aggregates>>]_vars
    /\ [][failed = "" /\ failed' \in {"monthly", "yearly"} =>
            /\ UNCHANGED storeVars
            /\ daily_readings # <<>>
            /\ daily_readings[Len(daily_readings)] = TickReading]_vars
    /\ [](pc = "yearly" =>
            \A k \in AllMetrics : \A i \in MonthReadings(k) :
                \E j \in 1..Len(monthly_aggregates) :
                    LET row == monthly_aggregates[j]
                    IN  /\ MonthlyKey(row) =
                              <<settings.awn_mac_address, YearOf(ts), MonthOf(ts), k>>
                        /\ row.count = Cardinality(MonthReadings(k))
                        /\ row.min_value <= ValueAt(i, k)
                        /\ ValueAt(i, k) <= row.max_value)
    /\ [](pc = "purge" =>
            \A k \in AllMetrics : \A i \in YearReadings(k) :
                \E j \in 1..Len(yearly_aggregates) :
                    LET row == yearly_aggregates[j]
                    IN  /\ YearlyKey(row) =
                              <<settings.awn_mac_address, YearOf(ts), k>>
                        /\ row.count = Cardinality(YearReadings(k))
                        /\ row.min_value <= ValueAt(i, k)
                        /\ ValueAt(i, k) <= row.max_value)

\* C13 witness: on an empty store the first tick stored its reading and
\* raised in the monthly recompute; the second tick's monthly and yearly
\* recomputes have returned and the temp_c rows count both readings.
C13_Witness ==
    /\ tick = 2 /\ pc = "purge"
    /\ trail[1] = <<"fetch", "convert", "store">>
    /\ Len(daily_readings) = 2
    /\ \E j \in 1..Len(monthly_aggregates) :
           /\ monthly_aggregates[j].metric_name = "temp_c"
           /\ monthly_aggregates[j].count = 2
    /\ \E j \in 1..Len(yearly_aggregates) :
           /\ yearly_aggregates[j].metric_name = "temp_c"
           /\ yearly_aggregates[j].count = 2

\* the steps of a tick in the order of the try block
TickSteps ==
    <<"fetch", "convert", "store", "monthly", "yearly", "purge", "publish">>

\* the steps the running tick has completed
ThisTick == trail[Len(trail)]

\* the steps a tick has completed when the step given raises
Before(step) ==
    CASE step = "fetch" -> <<>>
      [] step = "convert" -> SubSeq(TickSteps, 1, 1)
      [] step = "store" -> SubSeq(TickSteps, 1, 2)
      [] step = "monthly" -> SubSeq(TickSteps, 1, 3)
      [] step = "yearly" -> SubSeq(TickSteps, 1, 4)
      [] OTHER -> SubSeq(TickSteps, 1, 5)

\* the table has, for every metric of the tick's reading, a row of the
\* period of ts that counts the readings given for the metric
MonthlyWritten ==
    \A k \in DOMAIN get_numeric_fields(converted) :
        \E j \in 1..Len(monthly_aggregates) :
            /\ MonthlyKey(monthly_aggregates[j]) =
                   <<settings.awn_mac_address, YearOf(ts), MonthOf(ts), k>>
            /\ monthly_aggregates[j].count = Cardinality(MonthReadings(k))

YearlyWritten ==
    \A k \in DOMAIN get_numeric_fields(converted) :
        \E j \in 1..Len(yearly_aggregates) :
            /\ YearlyKey(yearly_aggregates[j]) =
                   <<settings.awn_mac_address, YearOf(ts), k>>
            /\ yearly_aggregates[j].count = Cardinality(YearReadings(k))

\* C14: a step that raises changes neither the store nor a queue and sends
\* the task to the interval sleep; from then until the next tick the steps
\* the tick completed are those before the failing step and no more; and
\* what those steps committed is in the store: the tick's reading after a
\* failure of a recompute or of the purge, the monthly rows after a failure
\* of the yearly recompute or of the purge, the yearly rows after a failure
\* of the purge.
C14_FailureAbortsTheTickOnly ==
    /\ [][failed = "" /\ failed' \in {"store", "monthly", "yearly", "purge"} =>
            /\ pc' = "sleep"
            /\ UNCHANGED <<storeVars, queues, pubLog, putCount, trail>>]_vars
    /\ [](failed # "" => ThisTick = Before(failed))
    /\ [](failed \in {"monthly", "yearly", "purge"} =>
            \E i \in 1..Len(daily_readings) : daily_readings[i] = TickReading)
    /\ [](failed \in {"yearly", "purge"} => MonthlyWritten)
    /\ [](failed = "purge" => YearlyWritten)

\* C14 witness: on an empty store the first tick raised in the purge; its
\* reading and both its aggregate writes are stored, nothing was published.
C14_Witness ==
    /\ tick = 1 /\ pc = "sleep" /\ failed = "purge"
    /\ daily_readings = <<TickReading>>
    /\ monthly_aggregates # <<>> /\ yearly_aggregates # <<>>
    /\ Len(monthly_aggregates) = Len(yearly_aggregates)
    /\ pubLog = <<>>

\* C15: with the API key, the application key or the device identifier
\* absent, the collector is never started: no tick begins, the tables stay
\* empty and nothing is published.
C15_NoCollectorWithoutAllKeys ==
    (\/ settings.awn_api_key = ""
     \/ settings.awn_application_key = ""
     \/ settings.awn_mac_address = "") =>
        /\ pc \in {"startup", "disabled"}
        /\ tick = 0 /\ trail = <<>>
        /\ daily_readings = <<>>
        /\ monthly_aggregates = <<>> /\ yearly_aggregates = <<>>
        /\ pubLog = <<>>

\* C16: a cancellation does not cut a tick short: when the task has ended
\* by cancellation and no step of its last tick raised, that tick either
\* stored nothing or completed every step up to the publish.
C16_CancelLeavesNoPartialTick ==
    (pc = "cancelled" /\ failed = "" /\ trail # <<>>) =>
        ("store" \in Range(ThisTick) => ThisTick = TickSteps)

\* the rows there before or after the step
EitherReadings == Range(daily_readings) \cup Range(daily_readings')

\* a row appears in the store only as the one reading the store step adds
OnlyTheStoreAdds ==
    \A r \in EitherReadings :
        Count(daily_readings', r) > Count(daily_readings, r) =>
            /\ pc = "store" /\ pc' = "monthly"
            /\ r = TickReading
            /\ daily_readings' = Append(daily_readings, r)

\* a row leaves the store only in a purge whose cutoff is later than its
\* timestamp
OnlyThePurgeRemoves ==
    \A r \in EitherReadings :
        Count(daily_readings', r) < Count(daily_readings, r) =>
            /\ pc = "purge" /\ pc' = "sleep"
            /\ r.timestamp < cutoff

\* the number of times a tick completed the store step
Stores(steps) == Cardinality({i \in 1..Len(steps) : steps[i] = "store"})

\* C17 as claimed: a tick that is over and whose fetch returned a reading has
\* stored one reading; rows are added by the store step only and removed by
\* the purge only.
C17_EveryFetchedReadingIsStored ==
    /\ []((pc = "sleep" /\ "fetch" \in Range(ThisTick) /\ raw.kind = "dict") =>
            Stores(ThisTick) = 1)
    /\ [][OnlyTheStoreAdds /\ OnlyThePurgeRemoves]_vars

\* C17 amended: a store step that completes adds exactly the tick's reading
\* and no tick completes the store step twice; rows are added by the store
\* step only, and a row is removed only by a purge whose cutoff is later
\* than its timestamp.
C17_StoredReadingsAreImmutable ==
    /\ [](\A j \in 1..Len(trail) : Stores(trail[j]) <= 1)
    /\ [][pc = "store" /\ pc' = "monthly" =>
            daily_readings' = Append(daily_readings, TickReading)]_vars
    /\ [][OnlyTheStoreAdds /\ OnlyThePurgeRemoves]_vars

\* C17 witness: two ticks completed on the store of the earlier runs; the
\* purge took the device's two old readings, the other device's reading
\* and the two new ones are there.
C17_Witness ==
    /\ tick = 2 /\ pc = "sleep" /\ outcome = "success"
    /\ trail = <<TickSteps, TickSteps>>
    /\ Len(daily_readings) = 3
    /\ daily_readings[1] = SeedReadings[3]
    /\ daily_readings[3] = TickReading

\* C18: the reading a tick stores and the reading it publishes are both
\* convert_reading of the dict the fetch returned, and no stored and no
\* published reading has macAddress, device, loc or lastRain among its keys.
C18_StoredAndPublishedAreConverted ==
    /\ (trail # <<>> /\ "store" \in Range(ThisTick)) =>
          /\ daily_readings[Len(daily_readings)].data = convert_reading(raw.items)
          /\ daily_readings[Len(daily_readings)].data = converted
    /\ (trail # <<>> /\ "publish" \in Range(ThisTick)) =>
          pubLog[Len(pubLog)] = convert_reading(raw.items)
    /\ \A i \in 1..Len(daily_readings) :
           (DOMAIN daily_readings[i].data) \cap EXCLUDED_FIELDS = {}
    /\ \A i \in 1..Len(pubLog) : (DOMAIN pubLog[i]) \cap EXCLUDED_FIELDS = {}

\* C18 witness: the fetch returned tempf 72.0, windspeedmph 5, macAddress
\* "AA:BB"; temp_c 22.22 and wind_speed_kmh 8.05, and nothing else, were
\* stored and published.
C18_Witness ==
    /\ raw = DictRaw(Raw1) /\ outcome = "success"
    /\ DOMAIN daily_readings[1].data = {"temp_c", "wind_speed_kmh"}
    /\ daily_readings[1].data["temp_c"] = Num(2222)
    /\ daily_readings[1].data["wind_speed_kmh"] = Num(805)
    /\ pubLog = <<daily_readings[1].data>>

\* C19: every item of the raw dict whose key is neither a metadata key nor
\* in the conversion table is in the converted dict under its key with its
\* value.
C19_UnknownKeysPassThrough ==
    (pc = "store" /\ raw.kind = "dict") =>
        \A i \in 1..Len(raw.items) :
            LET key == raw.items[i][1]
                value == raw.items[i][2]
            IN  (key \notin EXCLUDED_FIELDS /\ ~InConversions(key)) =>
                    /\ key \in DOMAIN converted
                    /\ converted[key] = value

\* C20: the steps a tick has completed are always a beginning of fetch,
\* convert, store, monthly, yearly, purge, publish; and a reading enters a
\* subscriber's queue only as the reading of the running tick, in the step
\* that ends the purge, when the store holds that reading and both its
\* recomputes have returned.
C20_PublishComesLast ==
    /\ [](\A j \in 1..Len(trail) :
            /\ Len(trail[j]) <= Len(TickSteps)
            /\ trail[j] = SubSeq(TickSteps, 1, Len(trail[j])))
    /\ [][\A c \in Consumers :
            Len(queues'[c]) > Len(queues[c]) =>
                /\ queues'[c] = Append(queues[c], converted)
                /\ pc = "purge"
                /\ ThisTick = SubSeq(TickSteps, 1, 5)
                /\ trail' = Did(trail, <<"purge", "publish">>)
                /\ \E i \in 1..Len(daily_readings) : daily_readings[i] = TickReading
                /\ MonthlyWritten /\ YearlyWritten]_vars

\* C20 witness: a subscriber's queue holds the reading of a tick that
\* completed every step, and the store holds that reading.
C20_Witness ==
    /\ subscribers = <<1>> /\ queues[1] = <<converted>>
    /\ tick = 1 /\ ThisTick = TickSteps
    /\ \E i \in 1..Len(daily_readings) : daily_readings[i] = TickReading
    /\ monthly_aggregates # <<>> /\ yearly_aggregates # <<>>

\* the running tick is over: every step done, a step raised, or no data
TickOver ==
    \/ ThisTick = TickSteps
    \/ failed # ""
    \/ outcome = "nodata" /\ ThisTick = <<"fetch">>

\* C21: a fetch starts only at startup or when the interval sleep of a
\* tick that is over ends, and it starts the next tick; and the step in
\* progress is the one after the steps the running tick has completed, so
\* no two steps of the loop are in progress together.
C21_TicksNeverOverlap ==
    /\ [][(pc' = "fetch" /\ pc # "fetch") =>
            \/ pc = "startup" /\ tick' = 1
            \/ /\ pc = "sleep"
               /\ TickOver
               /\ tick' = tick + 1
               /\ slept' = Append(slept, IntervalSeconds)
               /\ trail' = NewTick(trail)]_vars
    /\ [][tick' # tick => pc' = "fetch" /\ pc # "fetch"]_vars
    /\ [](pc \in {"fetch", "store", "monthly", "yearly", "purge"} =>
            /\ Len(trail) = tick
            /\ ThisTick = Before(IF pc = "store" THEN "store" ELSE pc))

\* C21 witness: the second tick's monthly recompute is in progress after a
\* first tick that completed, while a consumer is being handed the first
\* tick's reading.
C21_Witness ==
    /\ tick = 2 /\ pc = "monthly"
    /\ trail[1] = TickSteps
    /\ cpc[1] = "yielded" /\ delivered[1] = <<pubLog[1]>>

\* C22: a publish leaves the registry and every generator where they are,
\* leaves the queues out of the registry as they are, and appends the
\* reading once or not at all to each registered queue, making one
\* put_nowait on it; with an empty registry it changes no queue.
C22_PublishAtMostOnce ==
    /\ [](\A i, j \in 1..Len(subscribers) :
            subscribers[i] = subscribers[j] => i = j)
    /\ [][Len(pubLog') > Len(pubLog) =>
            /\ subscribers' = subscribers
            /\ cpc' = cpc
            /\ \A c \in Consumers :
                   IF c \in Range(subscribers)
                   THEN /\ \/ queues'[c] = queues[c]
                           \/ queues'[c] = Append(queues[c], pubLog'[Len(pubLog')])
                        /\ putCount'[c] = putCount[c] + 1
                   ELSE /\ queues'[c] = queues[c]
                        /\ putCount'[c] = putCount[c]
            /\ subscribers = <<>> => queues' = queues]_vars

\* C22 witness: the first publish found no subscriber; the second went
\* once to the one subscriber registered by then.
C22_Witness ==
    /\ Len(pubLog) = 2 /\ subAt[1] = 1 /\ cpc[2] = "idle"
    /\ subscribers = <<1>> /\ putCount[1] = 1
    /\ queues[1] = <<pubLog[2]>> /\ delivered[1] = <<>>

\* the monthly rows, the yearly rows, of the device and the period of ts
MonthRows ==
    {j \in 1..Len(monthly_aggregates) :
        /\ monthly_aggregates[j].mac_address = settings.awn_mac_address
        /\ monthly_aggregates[j].year = YearOf(ts)
        /\ monthly_aggregates[j].month = MonthOf(ts)}

YearRows ==
    {j \in 1..Len(yearly_aggregates) :
        /\ yearly_aggregates[j].mac_address = settings.awn_mac_address
        /\ yearly_aggregates[j].year = YearOf(ts)}

\* a tick has completed every step and the loop is in its interval sleep
TickCompleted ==
    /\ pc = "sleep" /\ outcome = "success"
    /\ trail # <<>> /\ ThisTick = TickSteps

\* C23 (as stated): at the end of a completed tick every monthly and yearly
\* row of the device and the period of the tick holds the minimum, maximum,
\* rounded mean and count of its metric over the readings stored then, the
\* purge having run.
C23_AggregatesMatchStoredAfterPurge ==
    TickCompleted =>
        /\ \A j \in MonthRows :
               HoldsStatistics(monthly_aggregates[j],
                               MonthReadings(monthly_aggregates[j].metric_name),
                               monthly_aggregates[j].metric_name)
        /\ \A j \in YearRows :
               HoldsStatistics(yearly_aggregates[j],
                               YearReadings(yearly_aggregates[j].metric_name),
                               yearly_aggregates[j].metric_name)

\* C23 (amended): when the purge of a tick completes, every monthly and
\* yearly row of the device and the period of the tick whose metric a
\* reading stored before the purge carries holds the minimum, maximum,
\* rounded mean and count of that metric over the readings stored before
\* the purge; the purge and the publish leave both tables as they are.
C23_AggregatesMatchStoredBeforePurge ==
    [][(pc = "purge" /\ pc' = "sleep" /\ outcome' = "success") =>
          /\ \A j \in MonthRows :
                 LET row == monthly_aggregates[j]
                 IN  MonthReadings(row.metric_name) # {} =>
                         HoldsStatistics(row, MonthReadings(row.metric_name),
                                         row.metric_name)
          /\ \A j \in YearRows :
                 LET row == yearly_aggregates[j]
                 IN  YearReadings(row.metric_name) # {} =>
                         HoldsStatistics(row, YearReadings(row.metric_name),
                                         row.metric_name)
          /\ monthly_aggregates' = monthly_aggregates
          /\ yearly_aggregates' = yearly_aggregates]_vars

\* C23 witness: the first tick on the seeded store has completed; its purge
\* deleted two readings, so the December temp_c row counts two readings
\* where one is stored and the yearly row three.
C23_Witness ==
    /\ TickCompleted /\ tick = 1 /\ deleted = 2
    /\ Cardinality(MonthReadings("temp_c")) = 1
    /\ Cardinality(YearReadings("temp_c")) = 1
    /\ \E j \in MonthRows :
           /\ monthly_aggregates[j].metric_name = "temp_c"
           /\ monthly_aggregates[j].count = 2
    /\ \E j \in YearRows :
           /\ yearly_aggregates[j].metric_name = "temp_c"
           /\ yearly_aggregates[j].count = 3

\* the stored readings of the collected device older than the day d
OlderThan(d) ==
    {i \in 1..Len(daily_readings) :
        /\ daily_readings[i].mac_address = settings.awn_mac_address
        /\ daily_readings[i].timestamp < d}

\* C24: from the end of a tick whose purge ran until the next fetch
\* returns, the store holds no reading of the collected device older than
\* the cutoff of that purge, and that cutoff is the retention window back
\* from a moment between the tick's store and the present.
C24_NoExpiredAfterSuccess ==
    outcome = "success" =>
        /\ OlderThan(cutoff) = {}
        /\ cutoff >= ts - RetentionDays
        /\ cutoff <= now - RetentionDays

\* C24 witness: the first tick failed in the monthly recompute, so the two
\* readings older than the window stayed in the store through it; the
\* second tick reached the purge, which deleted them.
C24_Witness ==
    /\ tick = 2 /\ TickCompleted
    /\ trail[1] = <<"fetch", "convert", "store">>
    /\ deleted = 2
    /\ OlderThan(cutoff) = {}
    /\ Len(daily_readings) = Len(SeedReadings)

\* the devices and the days a recompute is tried for: the collected
\* device, another one with readings, one with none; a day of the month
\* before, of the month, and of the year after
FrameDevices == {"M1", "M2", "M3"}
FrameDays == {StartDay - 40, StartDay, StartDay + 10}

\* some stored reading of device m in the month, in the year, of day d
\* carries the metric k
MonthHas(m, d, k) ==
    \E i \in 1..Len(daily_readings) :
        /\ daily_readings[i].mac_address = m
        /\ YearOf(daily_readings[i].timestamp) = YearOf(d)
        /\ MonthOf(daily_readings[i].timestamp) = MonthOf(d)
        /\ k \in DOMAIN get_numeric_fields(daily_readings[i].data)

YearHas(m, d, k) ==
    \E i \in 1..Len(daily_readings) :
        /\ daily_readings[i].mac_address = m
        /\ YearOf(daily_readings[i].timestamp) = YearOf(d)
        /\ k \in DOMAIN get_numeric_fields(daily_readings[i].data)

\* from the table old to the table new no row has gone, and a row that is
\* new or has changed is a row of device m and the month of d for a metric
\* that a stored reading of that device and month carries
MonthlyFrame(old, new, m, d) ==
    /\ Len(new) >= Len(old)
    /\ \A j \in 1..Len(new) :
           (j > Len(old) \/ new[j] # old[j]) =>
               /\ new[j].mac_address = m
               /\ new[j].year = YearOf(d)
               /\ new[j].month = MonthOf(d)
               /\ MonthHas(m, d, new[j].metric_name)

YearlyFrame(old, new, m, d) ==
    /\ Len(new) >= Len(old)
    /\ \A j \in 1..Len(new) :
           (j > Len(old) \/ new[j] # old[j]) =>
               /\ new[j].mac_address = m
               /\ new[j].year = YearOf(d)
               /\ YearHas(m, d, new[j].metric_name)

\* C25: a recompute for a device and a period, run on the tables and the
\* readings of any state, removes no row and adds or changes only rows of
\* that device and period for metrics that a stored reading of the device
\* and the period carries, so it writes nothing when there is no such
\* reading; and in the loop the monthly table changes only in the monthly
\* recompute and the yearly table only in the yearly one, within that
\* frame for the collected device and the period of the tick.
C25_RecomputeWritesOnlyItsRows ==
    /\ [](\A m \in FrameDevices : \A d \in FrameDays :
            /\ MonthlyFrame(monthly_aggregates,
                   update_monthly_aggregates(monthly_aggregates,
                       daily_readings, m, d).table, m, d)
            /\ YearlyFrame(yearly_aggregates,
                   update_yearly_aggregates(yearly_aggregates,
                       daily_readings, m, d).table, m, d))
    /\ [][monthly_aggregates' # monthly_aggregates =>
            /\ pc = "monthly"
            /\ yearly_aggregates' = yearly_aggregates
            /\ daily_readings' = daily_readings
            /\ MonthlyFrame(monthly_aggregates, monthly_aggregates',
                            settings.awn_mac_address, ts)]_vars
    /\ [][yearly_aggregates' # yearly_aggregates =>
            /\ pc = "yearly"
            /\ monthly_aggregates' = monthly_aggregates
            /\ daily_readings' = daily_readings
            /\ YearlyFrame(yearly_aggregates, yearly_aggregates',
                           settings.awn_mac_address, ts)]_vars

\* C25 witness: the second tick's monthly recompute has returned; it wrote
\* over the December temp_c row, while the December humidity row, whose
\* only reading the first tick's purge deleted, the November row and the
\* other device's row are as they were at the start.
C25_Witness ==
    /\ tick = 2 /\ pc = "yearly"
    /\ Len(monthly_aggregates) >= Len(SeedMonthly)
    /\ ~MonthHas("M1", ts, "humidity")
    /\ ~MonthHas("M1", StartDay - 40, "temp_c")
    /\ \E j \in MonthRows :
           /\ monthly_aggregates[j].metric_name = "temp_c"
           /\ monthly_aggregates[j] # SeedMonthly[j]
    /\ \E j \in MonthRows :
           /\ monthly_aggregates[j].metric_name = "humidity"
           /\ monthly_aggregates[j] = SeedMonthly[j]
    /\ \E j \in 1..Len(SeedMonthly) :
           /\ monthly_aggregates[j].month = 11
           /\ monthly_aggregates[j] = SeedMonthly[j]
    /\ \E j \in 1..Len(SeedMonthly) :
           /\ monthly_aggregates[j].mac_address = "M2"
           /\ monthly_aggregates[j] = SeedMonthly[j]

====
